---- MODULE Spec2Model ----
(***************************************************************************)
(* A model of the Simple-AI-Agents repository: the response formatter, the *)
(* media adapters and the TubeMasterAgent of Youtube-Master-Agent, and the *)
(* Amadeus flight and hotel tools of tools/.                               *)
(*                                                                         *)
(* Strings are sequences of one-character strings, so that formatting,     *)
(* escaping and parsing are computed and not assumed.                      *)
(***************************************************************************)
EXTENDS Integers, Sequences, FiniteSets, TLC

VARIABLES
    fmt_call,     \* the last call of a response formatter: its inputs and its output
    t_obj,        \* the travel tool instance: which tool, and how __init__ ended
    t_pc,         \* position of the running travel call
    t_args,       \* the arguments of the running travel call
    t_log,        \* the steps the travel call has taken, in order, with their outcome
    t_outcome,    \* how the travel call ended: a returned value or a raised exception
    hotel_ids,    \* fetch_hotel_offers: the hotel IDs it was handed
    h_next,       \* fetch_hotel_offers: 1-based index of the next hotel of the loop
    data,         \* fetch_hotel_offers: the records accepted so far
    lookups,      \* the per-hotel lookups issued, each with len(data) at that moment
    flights,      \* forward (flights): the offers fetch_flights returned
    f_next,       \* forward (flights): 1-based index of the next flight of the loop
    flight_list,  \* forward (flights): the formatted flights so far
    m_call,       \* the media adapter call in progress
    m_done,       \* the media adapter calls that ended, in order, with their outcome
    a_thread,     \* per chat session: the worker thread running respond()
    a_tasks,      \* the tasks created on global_loop, in order of creation
    a_loop,       \* the thread running global_loop, None when it is not running
    a_context,    \* what global_agent.context holds: the turns of the runs
    a_agent,      \* global_agent: how __init__ ended and what it created
    r_call,       \* TubeMasterAgent.run: the call in progress
    r_coros,      \* the call_agent coroutines that run() calls created, in order
    r_log         \* the run() calls that ended, in order, with their outcome

fmt_vars == <<fmt_call>>
travel_vars == <<t_obj, t_pc, t_args, t_log, t_outcome, hotel_ids, h_next, data,
                 lookups, flights, f_next, flight_list>>
media_vars == <<m_call, m_done>>
agent_vars == <<a_thread, a_tasks, a_loop, a_context, a_agent>>
run_vars == <<r_call, r_coros, r_log>>

(***************************************************************************)
(* Bounds of the model.                                                    *)
(***************************************************************************)
MaxItems == 2        \* longest input list handed to a formatter
MaxHotels == 3       \* most hotel IDs a hotel listing returns
MaxOffers == 8       \* most well-formed offer entries in one hotel's reply
MaxFlights == 2      \* most flight offers a flight search returns
MaxMediaCalls == 2   \* media adapter calls in one behaviour
MaxMsgs == 1         \* messages one chat session sends
MaxBlocks == 2       \* most content blocks in a final response
MaxToolCalls == 1    \* most tool calls the model asks for in one run
MaxRuns == 2         \* calls of TubeMasterAgent.run in one behaviour

(***************************************************************************)
(* Characters and string helpers.                                          *)
(***************************************************************************)
NL == "\n"
QUOTE == "\""
BSLASH == "\\"
None == "None"

Digits == <<"0","1","2","3","4","5","6","7","8","9">>

IsDigit(c) == \E d \in 1..10 : Digits[d] = c

RECURSIVE str_int(_)
\* str(n) of a natural number: its decimal digits
str_int(n) == IF n < 10 THEN <<Digits[n + 1]>>
              ELSE str_int(n \div 10) \o <<Digits[(n % 10) + 1]>>

RECURSIVE str_join(_, _)
\* sep.join(lines)
str_join(lines, sep) ==
    IF lines = <<>> THEN <<>>
    ELSE IF Len(lines) = 1 THEN lines[1]
    ELSE lines[1] \o sep \o str_join(Tail(lines), sep)

\* a suffix test that compares all of p but its first character
endswith_tail(s, p) ==
    /\ Len(s) >= Len(p) - 1
    /\ SubSeq(s, Len(s) - Len(p) + 2, Len(s)) = Tail(p)

\* s.endswith(p)
endswith(s, p) == Len(s) >= Len(p) /\ SubSeq(s, Len(s) - Len(p) + 1, Len(s)) = p

\* s.split("\n"): the lines of s
str_split_lines(s) ==
    LET breaks == {i \in 1..Len(s) : s[i] = NL}
        nth(k) == CHOOSE p \in breaks : Cardinality({q \in breaks : q < p}) = k - 1
        first(k) == IF k = 1 THEN 1 ELSE nth(k - 1) + 1
        last(k) == IF k = Cardinality(breaks) + 1 THEN Len(s) ELSE nth(k) - 1
    IN [k \in 1..(Cardinality(breaks) + 1) |-> SubSeq(s, first(k), last(k))]

(***************************************************************************)
(* tools/response_formatter.py: video_summary_response_formatter           *)
(***************************************************************************)
ERR_SAME_LENGTH == <<"E","r","r","o","r",":"," ","I","n","p","u","t"," ","l","i","s","t","s"," ","m","u","s","t"," ","h","a","v","e"," ","t","h","e"," ","s","a","m","e"," ","l","e","n","g","t","h",".">>

\* a guard that lets an empty list of summaries through unchecked
SameLengthUnlessEmpty(summaries, titles, topics, urls) ==
    \/ Len(summaries) = 0
    \/ /\ Len(summaries) = Len(titles)
       /\ Len(titles) = Len(topics)
       /\ Len(topics) = Len(urls)

\* len(summaries) == len(titles) == len(topics) == len(urls)
SameLength(summaries, titles, topics, urls) ==
    /\ Len(summaries) = Len(titles)
    /\ Len(titles) = Len(topics)
    /\ Len(topics) = Len(urls)

\* a block whose URL and Topic lines carry each other's value
VideoBlockLinesSwapped(i, summaries, titles, topics, urls) ==
    << <<"V","i","d","e","o"," ">> \o str_int(i + 1) \o <<":">>,
       <<" "," ","T","i","t","l","e",":"," ">> \o titles[i + 1],
       <<" "," ","U","R","L",":"," ">> \o topics[i + 1],
       <<" "," ","T","o","p","i","c",":"," ">> \o urls[i + 1],
       <<" "," ","S","u","m","m","a","r","y",":"," ">> \o summaries[i + 1],
       <<>> >>

\* the six lines one iteration of the loop appends; i is the 0-based index
VideoBlockLines(i, summaries, titles, topics, urls) ==
    << <<"V","i","d","e","o"," ">> \o str_int(i + 1) \o <<":">>,
       <<" "," ","T","i","t","l","e",":"," ">> \o titles[i + 1],
       <<" "," ","U","R","L",":"," ">> \o urls[i + 1],
       <<" "," ","T","o","p","i","c",":"," ">> \o topics[i + 1],
       <<" "," ","S","u","m","m","a","r","y",":"," ">> \o summaries[i + 1],
       <<>> >>

RECURSIVE formatted_response(_, _, _, _, _)
\* the list of lines after the iterations i, i+1, .. len(summaries)-1
formatted_response(i, summaries, titles, topics, urls) ==
    IF i >= Len(summaries) THEN <<>>
    ELSE VideoBlockLines(i, summaries, titles, topics, urls)
         \o formatted_response(i + 1, summaries, titles, topics, urls)

video_summary_response_formatter(summaries, titles, topics, urls) ==
    IF ~SameLength(summaries, titles, topics, urls)
    THEN ERR_SAME_LENGTH
    ELSE str_join(formatted_response(0, summaries, titles, topics, urls), <<NL>>)

(***************************************************************************)
(* json_response_formatter: imported by agents/tubemaster.py and           *)
(* registered as the tool video_summary_response_formatter.  Its body is   *)
(* not among the sources; it is modelled from the JSON mode of the         *)
(* response formatter's design: one top-level key, an array of per-item    *)
(* objects in input order, 2-space indentation, the same length check and  *)
(* error string as the text mode.                                          *)
(***************************************************************************)
JSON_TOP_KEY == <<"v","i","d","e","o","s">>
JSON_TITLE == <<"v","i","d","e","o","_","t","i","t","l","e">>
JSON_URL == <<"u","r","l">>
JSON_TOPIC == <<"t","o","p","i","c">>
JSON_SUMMARY == <<"s","u","m","m","a","r","y">>

RECURSIVE json_escape(_)
\* the body of a JSON string literal: quote, backslash and newline escaped
json_escape(s) ==
    IF s = <<>> THEN <<>>
    ELSE (CASE Head(s) = QUOTE -> <<BSLASH, QUOTE>>
            [] Head(s) = BSLASH -> <<BSLASH, BSLASH>>
            [] Head(s) = NL -> <<BSLASH, "n">>
            [] OTHER -> <<Head(s)>>) \o json_escape(Tail(s))

\* a string literal that copies its characters without escaping them
json_string_raw(s) == <<QUOTE>> \o s \o <<QUOTE>>

json_string(s) == <<QUOTE>> \o json_escape(s) \o <<QUOTE>>

json_indent(level) == [k \in 1..(2 * level) |-> " "]

\* one "key": "value" member line at the given indentation level
json_member(level, key, value) ==
    json_indent(level) \o json_string(key) \o <<":", " ">> \o json_string(value)

\* the lines of the object of item i (1-based), at indentation level 2
json_item_lines(i, summaries, titles, topics, urls) ==
    << json_indent(2) \o <<"{">>,
       json_member(3, JSON_TITLE, titles[i]) \o <<",">>,
       json_member(3, JSON_URL, urls[i]) \o <<",">>,
       json_member(3, JSON_TOPIC, topics[i]) \o <<",">>,
       json_member(3, JSON_SUMMARY, summaries[i]),
       json_indent(2) \o <<"}">> >>

RECURSIVE json_items(_, _, _, _, _)
\* the lines of the items i .. N, a comma after each object but the last
json_items(i, summaries, titles, topics, urls) ==
    IF i > Len(summaries) THEN <<>>
    ELSE LET ls == json_item_lines(i, summaries, titles, topics, urls)
             closed == IF i < Len(summaries)
                       THEN [ls EXCEPT ![6] = ls[6] \o <<",">>]
                       ELSE ls
         IN closed \o json_items(i + 1, summaries, titles, topics, urls)

json_dumps_videos(summaries, titles, topics, urls) ==
    IF Len(summaries) = 0
    THEN str_join(<< <<"{">>,
                     json_indent(1) \o json_string(JSON_TOP_KEY) \o <<":", " ", "[", "]">>,
                     <<"}">> >>, <<NL>>)
    ELSE str_join(<< <<"{">>,
                     json_indent(1) \o json_string(JSON_TOP_KEY) \o <<":", " ", "[">> >>
                  \o json_items(1, summaries, titles, topics, urls)
                  \o << json_indent(1) \o <<"]">>, <<"}">> >>, <<NL>>)

json_response_formatter(summaries, titles, topics, urls) ==
    IF ~(/\ Len(summaries) = Len(titles)
         /\ Len(titles) = Len(topics)
         /\ Len(topics) = Len(urls))
    THEN ERR_SAME_LENGTH
    ELSE json_dumps_videos(summaries, titles, topics, urls)

(***************************************************************************)
(* Reading JSON back (json.loads restricted to the grammar the formatter   *)
(* writes): objects, arrays and strings.  Anything else is invalid.        *)
(***************************************************************************)
BadToken == [t |-> "bad", v |-> <<>>]

RECURSIVE json_read_string(_, _, _)
\* reads a string literal whose opening quote is before position i;
\* <<decoded, next position>>, or <<None, 0>> when the literal is malformed
json_read_string(s, i, acc) ==
    IF i > Len(s) THEN <<None, 0>>
    ELSE IF s[i] = QUOTE THEN <<acc, i + 1>>
    ELSE IF s[i] = NL THEN <<None, 0>>
    ELSE IF s[i] = BSLASH
         THEN IF i + 1 > Len(s) THEN <<None, 0>>
              ELSE IF s[i + 1] = QUOTE THEN json_read_string(s, i + 2, Append(acc, QUOTE))
              ELSE IF s[i + 1] = BSLASH THEN json_read_string(s, i + 2, Append(acc, BSLASH))
              ELSE IF s[i + 1] = "n" THEN json_read_string(s, i + 2, Append(acc, NL))
              ELSE <<None, 0>>
    ELSE json_read_string(s, i + 1, Append(acc, s[i]))

RECURSIVE json_line_tokens(_, _, _)
\* the tokens of one line from position i: punctuation and decoded strings;
\* <<BadToken>> when the line holds anything else
json_line_tokens(s, i, acc) ==
    IF \A k \in i..Len(s) : s[k] = " " THEN acc
    ELSE LET j == CHOOSE k \in i..Len(s) :
                      s[k] # " " /\ \A m \in i..(k - 1) : s[m] = " "
         IN IF s[j] \in {"{", "}", "[", "]", ":", ","}
            THEN json_line_tokens(s, j + 1, Append(acc, [t |-> "p", v |-> <<s[j]>>]))
            ELSE IF s[j] = QUOTE
                 THEN LET r == json_read_string(s, j + 1, <<>>)
                      IN IF r[1] = None THEN <<BadToken>>
                         ELSE json_line_tokens(s, r[2], Append(acc, [t |-> "s", v |-> r[1]]))
            ELSE <<BadToken>>

RECURSIVE json_tokens_from(_, _)
\* the tokens of the lines k, k+1, ..: a string literal never spans lines,
\* so the document is read line by line
json_tokens_from(lines, k) ==
    IF k > Len(lines) THEN <<>>
    ELSE LET here == json_line_tokens(lines[k], 1, <<>>)
             rest == json_tokens_from(lines, k + 1)
         IN IF here = <<BadToken>> \/ rest = <<BadToken>> THEN <<BadToken>>
            ELSE here \o rest

json_tokens(s) == json_tokens_from(str_split_lines(s), 1)

IsPunct(tok, c) == tok.t = "p" /\ tok.v = <<c>>

RECURSIVE json_parse_members(_, _, _)
\* the members of an object whose "{" is before position i, as a sequence of
\* <<key, value>> pairs: <<members, next position>> or <<None, 0>>
json_parse_members(toks, i, acc) ==
    IF i + 2 > Len(toks) THEN <<None, 0>>
    ELSE IF ~(toks[i].t = "s" /\ IsPunct(toks[i + 1], ":") /\ toks[i + 2].t = "s")
         THEN <<None, 0>>
    ELSE LET got == Append(acc, <<toks[i].v, toks[i + 2].v>>)
         IN IF i + 3 > Len(toks) THEN <<None, 0>>
            ELSE IF IsPunct(toks[i + 3], "}") THEN <<got, i + 4>>
            ELSE IF IsPunct(toks[i + 3], ",") THEN json_parse_members(toks, i + 4, got)
            ELSE <<None, 0>>

RECURSIVE json_parse_array(_, _, _)
\* the objects of an array whose "[" is before position i
json_parse_array(toks, i, acc) ==
    IF i > Len(toks) THEN <<None, 0>>
    ELSE IF IsPunct(toks[i], "]") /\ acc = <<>> THEN <<acc, i + 1>>
    ELSE IF ~IsPunct(toks[i], "{") THEN <<None, 0>>
    ELSE LET m == json_parse_members(toks, i + 1, <<>>)
         IN IF m[1] = None \/ m[2] > Len(toks) THEN <<None, 0>>
            ELSE IF IsPunct(toks[m[2]], "]") THEN <<Append(acc, m[1]), m[2] + 1>>
            ELSE IF IsPunct(toks[m[2]], ",")
                 THEN json_parse_array(toks, m[2] + 1, Append(acc, m[1]))
            ELSE <<None, 0>>

\* json.loads(s) for a document { "<key>": [ {..}, .. ] }:
\* [valid, key, items], items a sequence of member sequences
json_loads(s) ==
    LET toks == json_tokens(s)
        bad == [valid |-> FALSE, key |-> <<>>, items |-> <<>>]
    IN IF Len(toks) < 6 THEN bad
       ELSE IF ~(/\ IsPunct(toks[1], "{") /\ toks[2].t = "s"
                 /\ IsPunct(toks[3], ":") /\ IsPunct(toks[4], "["))
            THEN bad
       ELSE LET a == json_parse_array(toks, 5, <<>>)
            IN IF a[1] = None THEN bad
               ELSE IF a[2] = Len(toks) /\ IsPunct(toks[a[2]], "}")
                    THEN [valid |-> TRUE, key |-> toks[2].v, items |-> a[1]]
               ELSE bad

\* obj[key] of a parsed object: the value of its member named key, None if absent
json_get(obj, key) ==
    IF \E k \in 1..Len(obj) : obj[k][1] = key
    THEN obj[CHOOSE k \in 1..Len(obj) : obj[k][1] = key][2]
    ELSE None

(***************************************************************************)
(* The formatters as operations: a caller (the agent's tool dispatch)      *)
(* hands four lists to one of them and receives a string.                  *)
(***************************************************************************)
\* the field values the calls draw from: plain text and text carrying the
\* characters formatting has to cope with
SummaryVals == { <<"o","k">>, <<"a", NL, "b">> }
TitleVals == { <<"T">>, <<QUOTE, "q", QUOTE>> }
TopicVals == { <<>>, <<BSLASH, "n">> }
UrlVals == { <<"u",":","1">>, <<"x", BSLASH>> }

ListsOf(vals) == UNION { [1..n -> vals] : n \in 0..MaxItems }

NoCall == [fn |-> "none", summaries |-> <<>>, titles |-> <<>>,
           topics |-> <<>>, urls |-> <<>>, out |-> <<>>]

FmtInit == fmt_call = NoCall

CallTextFormatter ==
    /\ fmt_call.fn = "none"
    /\ \E s \in ListsOf(SummaryVals), t \in ListsOf(TitleVals),
          p \in ListsOf(TopicVals), u \in ListsOf(UrlVals) :
        fmt_call' = [fn |-> "text", summaries |-> s, titles |-> t, topics |-> p,
                     urls |-> u,
                     out |-> video_summary_response_formatter(s, t, p, u)]

CallJsonFormatter ==
    /\ fmt_call.fn = "none"
    /\ \E s \in ListsOf(SummaryVals), t \in ListsOf(TitleVals),
          p \in ListsOf(TopicVals), u \in ListsOf(UrlVals) :
        fmt_call' = [fn |-> "json", summaries |-> s, titles |-> t, topics |-> p,
                     urls |-> u,
                     out |-> json_response_formatter(s, t, p, u)]

(***************************************************************************)
(* tools/search_hotel_tool.py and tools/search_flight_tool.py.             *)
(*                                                                         *)
(* A call is a sequence of steps; the reply of each external call is       *)
(* chosen by the environment.  t_log records every step taken, t_outcome   *)
(* how the call ended.                                                     *)
(***************************************************************************)
RESULT_CAP == 15         \* if len(data) >= 15: break
MAX_HOTEL_LOOKUPS == 50  \* for hotel_id in hotel_ids[:50]

NoOutcome == [kind |-> "none", what |-> "", rows |-> <<>>]
Raised(error) == [kind |-> "raised", what |-> error, rows |-> <<>>]
ReturnedText(text) == [kind |-> "returned", what |-> text, rows |-> <<>>]
ReturnedTable(rows) == [kind |-> "returned", what |-> "table", rows |-> rows]

NoArgs == [entry |-> "none", price_range |-> None, date |-> <<>>]

\* re.match(r"\d+-\d+", s): digits, a dash and a digit at the start of s
match_price_range(s) ==
    \E k \in 1..Len(s) :
        /\ \A m \in 1..k : IsDigit(s[m])
        /\ k + 2 <= Len(s)
        /\ s[k + 1] = "-"
        /\ IsDigit(s[k + 2])

\* re.match(r"\d{4}-\d{2}-\d{2}", s): the pattern at the start of s
match_date(s) ==
    /\ Len(s) >= 10
    /\ \A m \in {1, 2, 3, 4, 6, 7, 9, 10} : IsDigit(s[m])
    /\ s[5] = "-"
    /\ s[8] = "-"

\* the truth value of an optional string argument: None and "" are false
truthy(s) == s # None /\ s # <<>>

PriceRanges == { None, <<"5","0","-","9","0">>, <<"5","0">> }
Dates == { <<"2","0","2","5","-","0","3","-","1","5">>, <<"1","5","/","0","3">> }

TravelInit ==
    /\ t_obj = [tool |-> "none", state |-> "none", api_key |-> FALSE,
                api_secret |-> FALSE, token_calls |-> 0]
    /\ t_pc = "idle"
    /\ t_args = NoArgs
    /\ t_log = <<>>
    /\ t_outcome = NoOutcome
    /\ hotel_ids = <<>>
    /\ h_next = 1
    /\ data = <<>>
    /\ lookups = <<>>
    /\ flights = <<>>
    /\ f_next = 1
    /\ flight_list = <<>>

\* a step that succeeded and hands over to position `next`
StepOk(step, next) ==
    /\ t_log' = Append(t_log, [step |-> step, ok |-> TRUE])
    /\ t_pc' = next
    /\ t_outcome' = t_outcome

\* a step that raised: the exception leaves forward(), the call is over
StepRaise(step, error) ==
    /\ t_log' = Append(t_log, [step |-> step, ok |-> FALSE])
    /\ t_pc' = "done"
    /\ t_outcome' = Raised(error)

HotelFanOutUnchanged == UNCHANGED <<hotel_ids, h_next, data, lookups>>
FlightFanOutUnchanged == UNCHANGED <<flights, f_next, flight_list>>

\* a test of the credentials that passes when one of the two is set
MissingBothCredentials(api_key, api_secret) == ~api_key /\ ~api_secret

\* if not self.api_key or not self.api_secret; TRUE stands for a value that
\* is set and not empty
MissingCredentials(api_key, api_secret) == ~api_key \/ ~api_secret

(* AmadeusHotelFinderTool.__init__ *)
ConstructHotelTool ==
    /\ t_obj.tool = "none"
    /\ \E key \in BOOLEAN, secret \in BOOLEAN :
        t_obj' = [tool |-> "hotel",
                  state |-> IF MissingCredentials(key, secret) THEN "raised" ELSE "ready",
                  api_key |-> key, api_secret |-> secret,
                  token_calls |-> 0]
    /\ UNCHANGED <<t_pc, t_args, t_log, t_outcome>>
    /\ HotelFanOutUnchanged /\ FlightFanOutUnchanged

(* AmadeusFlightSearchTool.__init__: the credentials, then self.token *)
ConstructFlightTool ==
    /\ t_obj.tool = "none"
    /\ \E key \in BOOLEAN, secret \in BOOLEAN, token_ok \in BOOLEAN :
        t_obj' = IF MissingCredentials(key, secret)
                 THEN [tool |-> "flight", state |-> "raised",
                       api_key |-> key, api_secret |-> secret, token_calls |-> 0]
                 ELSE [tool |-> "flight",
                       state |-> IF token_ok THEN "ready" ELSE "raised",
                       api_key |-> key, api_secret |-> secret, token_calls |-> 1]
    /\ UNCHANGED <<t_pc, t_args, t_log, t_outcome>>
    /\ HotelFanOutUnchanged /\ FlightFanOutUnchanged

(* AmadeusHotelFinderTool.forward: the two format checks *)
HotelForward ==
    /\ t_obj.tool = "hotel" /\ t_obj.state = "ready"
    /\ t_pc = "idle"
    /\ \E price_range \in PriceRanges, check_in_date \in Dates :
        /\ t_args' = [entry |-> "forward", price_range |-> price_range,
                      date |-> check_in_date]
        /\ IF truthy(price_range) /\ ~match_price_range(price_range)
           THEN StepRaise("validate", "ValueError: Invalid price range format")
           ELSE IF ~match_date(check_in_date)
           THEN StepRaise("validate", "ValueError: Invalid date format")
           ELSE StepOk("validate", "token")
    /\ UNCHANGED t_obj
    /\ HotelFanOutUnchanged /\ FlightFanOutUnchanged

(* get_access_token *)
HotelGetAccessToken ==
    /\ t_obj.tool = "hotel" /\ t_pc = "token"
    /\ \E reply \in {"ok", "http_error"} :
        IF reply = "ok" THEN StepOk("token", "country")
        ELSE StepRaise("token", "HTTPError: token")
    /\ t_obj' = [t_obj EXCEPT !.token_calls = @ + 1]
    /\ UNCHANGED t_args
    /\ HotelFanOutUnchanged /\ FlightFanOutUnchanged

\* a country lookup whose failure is not raised: the call goes on without a code
HotelConvertCountryNoRaise ==
    /\ t_obj.tool = "hotel" /\ t_pc = "country"
    /\ \E reply \in {"ok", "not_200", "bad_body"} :
        /\ t_log' = Append(t_log, [step |-> "country", ok |-> reply = "ok"])
        /\ t_pc' = "city"
        /\ t_outcome' = t_outcome
    /\ UNCHANGED <<t_obj, t_args>>
    /\ HotelFanOutUnchanged /\ FlightFanOutUnchanged

(* convert_country_to_code *)
HotelConvertCountry ==
    /\ t_obj.tool = "hotel" /\ t_pc = "country"
    /\ \E reply \in {"ok", "not_200", "bad_body"} :
        CASE reply = "ok" -> StepOk("country", "city")
          [] reply = "not_200" ->
                StepRaise("country", "ValueError: Could not convert country name")
          [] reply = "bad_body" -> StepRaise("country", "LookupError: country reply")
    /\ UNCHANGED <<t_obj, t_args>>
    /\ HotelFanOutUnchanged /\ FlightFanOutUnchanged

(* get_city_code *)
HotelGetCityCode ==
    /\ t_obj.tool = "hotel" /\ t_pc = "city"
    /\ \E reply \in {"ok", "http_error", "no_city"} :
        CASE reply = "ok" -> StepOk("city", "hotels")
          [] reply = "http_error" -> StepRaise("city", "HTTPError: city")
          [] reply = "no_city" -> StepRaise("city", "ValueError: Could not find city code")
    /\ UNCHANGED <<t_obj, t_args>>
    /\ HotelFanOutUnchanged /\ FlightFanOutUnchanged

(* fetch_hotels; forward's own `if not hotel_ids` never fires after it *)
HotelFetchHotels ==
    /\ t_obj.tool = "hotel" /\ t_pc = "hotels"
    /\ \/ \E n \in 1..MaxHotels :
            /\ hotel_ids' = [k \in 1..n |-> k]
            /\ StepOk("hotels", "check_out")
       \/ /\ \E error \in {"HTTPError: hotels", "ValueError: No hotels found for city"} :
                StepRaise("hotels", error)
          /\ UNCHANGED hotel_ids
    /\ UNCHANGED <<t_obj, t_args, h_next, data, lookups>>
    /\ FlightFanOutUnchanged

(* pd.to_datetime(check_in_date) + pd.Timedelta(days=stay_days): the date *)
(* passed the pattern, and may still not be a date                         *)
HotelCheckOutDate ==
    /\ t_obj.tool = "hotel" /\ t_pc = "check_out"
    /\ \E parsed \in BOOLEAN :
        IF parsed THEN StepOk("check_out", "offers")
        ELSE StepRaise("check_out", "ValueError: to_datetime")
    /\ UNCHANGED <<t_obj, t_args>>
    /\ HotelFanOutUnchanged /\ FlightFanOutUnchanged

(* fetch_hotel_offers called on its own, with any list of hotel IDs *)
CallFetchHotelOffers ==
    /\ t_obj.tool = "hotel" /\ t_obj.state = "ready"
    /\ t_pc = "idle"
    /\ \E n \in 0..MaxHotels :
        /\ hotel_ids' = [k \in 1..n |-> k]
        /\ t_pc' = IF n = 0 THEN "offers_return" ELSE "offers"
    /\ t_args' = [entry |-> "fetch_hotel_offers", price_range |-> None,
                  date |-> <<"2","0","2","5","-","0","3","-","1","5">>]
    /\ UNCHANGED <<t_obj, t_log, t_outcome, h_next, data, lookups>>
    /\ FlightFanOutUnchanged

\* hotel_ids[:50]
HotelsLookedUp == SubSeq(hotel_ids, 1,
                         IF Len(hotel_ids) < MAX_HOTEL_LOOKUPS THEN Len(hotel_ids)
                         ELSE MAX_HOTEL_LOOKUPS)

\* the replies of one per-hotel lookup: a status other than 200, a body that
\* is not JSON, or status 200 with `good` well-formed offer entries followed,
\* when `malformed`, by an entry whose "offers" cannot be read
OfferReplies ==
    { [kind |-> k, good |-> 0, malformed |-> FALSE] : k \in {"not_200", "json_error"} }
    \cup { [kind |-> "ok", good |-> g, malformed |-> m] :
             g \in 0..MaxOffers, m \in BOOLEAN }

\* the records the loop over one reply's entries appends before it ends
AcceptedRecords(hotel_id, reply) ==
    [k \in 1..reply.good |-> [hotel |-> hotel_id, entry |-> k]]

(* fetch_hotel_offers: one iteration of the loop over hotel_ids[:50] *)
HotelLookup ==
    /\ t_obj.tool = "hotel" /\ t_pc = "offers"
    /\ h_next <= Len(HotelsLookedUp)
    /\ \E reply \in OfferReplies :
        LET hotel_id == HotelsLookedUp[h_next]
            failed == reply.kind # "ok" \/ reply.malformed
            empty == reply.kind = "ok" /\ reply.good = 0 /\ ~reply.malformed
            accepted == IF reply.kind = "ok"
                        THEN data \o AcceptedRecords(hotel_id, reply) ELSE data
            last == h_next + 1 > Len(HotelsLookedUp)
        IN /\ lookups' = Append(lookups, [hotel |-> hotel_id, accepted |-> Len(data),
                                          reply |-> reply])
           /\ t_log' = Append(t_log, [step |-> "offer", ok |-> ~failed])
           /\ data' = accepted
           /\ h_next' = h_next + 1
           /\ IF empty
              THEN \* if not offers: return "No hotel offers found for this hotel."
                   /\ t_outcome' = ReturnedText("No hotel offers found for this hotel.")
                   /\ t_pc' = "done"
              ELSE /\ t_outcome' = t_outcome
                   /\ t_pc' = IF failed
                              THEN \* except Exception: continue
                                   IF last THEN "offers_return" ELSE "offers"
                              ELSE \* if len(data) >= 15: break
                                   IF Len(accepted) >= RESULT_CAP \/ last
                                   THEN "offers_return" ELSE "offers"
    /\ UNCHANGED <<t_obj, t_args, hotel_ids>>
    /\ FlightFanOutUnchanged

(* df.to_string(index=False); forward returns it (it is never None) *)
HotelOffersReturn ==
    /\ t_obj.tool = "hotel" /\ t_pc = "offers_return"
    /\ t_outcome' = ReturnedTable(data)
    /\ t_pc' = "done"
    /\ UNCHANGED <<t_obj, t_args, t_log>>
    /\ HotelFanOutUnchanged /\ FlightFanOutUnchanged

(* AmadeusFlightSearchTool.forward: the format check of the travel date *)
FlightForward ==
    /\ t_obj.tool = "flight" /\ t_obj.state = "ready"
    /\ t_pc = "idle"
    /\ \E travel_date \in Dates :
        /\ t_args' = [entry |-> "forward", price_range |-> None, date |-> travel_date]
        /\ IF ~match_date(travel_date)
           THEN StepRaise("validate", "ValueError: Invalid date format")
           ELSE StepOk("validate", "country_dep")
    /\ UNCHANGED t_obj
    /\ HotelFanOutUnchanged /\ FlightFanOutUnchanged

(* convert_country_to_code, for the departure and then the destination *)
FlightConvertCountry(step, next) ==
    /\ t_obj.tool = "flight" /\ t_pc = step
    /\ \E reply \in {"ok", "not_200", "bad_body"} :
        CASE reply = "ok" -> StepOk(step, next)
          [] reply = "not_200" ->
                StepRaise(step, "ValueError: Could not convert country name")
          [] reply = "bad_body" -> StepRaise(step, "LookupError: country reply")
    /\ UNCHANGED <<t_obj, t_args>>
    /\ HotelFanOutUnchanged /\ FlightFanOutUnchanged

(* get_airport_code, for the departure and then the destination *)
FlightGetAirportCode(step, next) ==
    /\ t_obj.tool = "flight" /\ t_pc = step
    /\ \E reply \in {"ok", "http_error", "no_airport"} :
        CASE reply = "ok" -> StepOk(step, next)
          [] reply = "http_error" -> StepRaise(step, "HTTPError: airport")
          [] reply = "no_airport" ->
                StepRaise(step, "ValueError: Could not find an airport")
    /\ UNCHANGED <<t_obj, t_args>>
    /\ HotelFanOutUnchanged /\ FlightFanOutUnchanged

FlightPrices == {1, 2}

FlightLists == UNION { [1..n -> [price : FlightPrices]] : n \in 0..MaxFlights }

(* fetch_flights *)
FlightFetchFlights ==
    /\ t_obj.tool = "flight" /\ t_pc = "flights"
    /\ \/ \E found \in FlightLists :
            /\ flights' = found
            /\ StepOk("flights", IF found = <<>> THEN "flights_return" ELSE "airlines")
       \/ /\ \E error \in {"ValueError: Error fetching flights: Bad request",
                           "HTTPError: flights"} :
                StepRaise("flights", error)
          /\ UNCHANGED flights
    /\ UNCHANGED <<t_obj, t_args, f_next, flight_list>>
    /\ HotelFanOutUnchanged

(* one iteration of the loop over flights: get_airline_name falls back to  *)
(* the carrier code on a reply it cannot use; a request that fails at      *)
(* network level, or a flight whose fields cannot be formatted, raises     *)
FlightAirlineName ==
    /\ t_obj.tool = "flight" /\ t_pc = "airlines"
    /\ f_next <= Len(flights)
    /\ \E reply \in {"name", "carrier_code", "exception"} :
        IF reply = "exception"
        THEN /\ StepRaise("airline", "Exception: airline or flight fields")
             /\ UNCHANGED <<f_next, flight_list>>
        ELSE /\ StepOk("airline", IF f_next + 1 > Len(flights)
                                  THEN "flights_return" ELSE "airlines")
             /\ flight_list' = Append(flight_list,
                                      [price |-> flights[f_next].price,
                                       flight |-> f_next,
                                       airline |-> reply])
             /\ f_next' = f_next + 1
    /\ UNCHANGED <<t_obj, t_args, flights>>
    /\ HotelFanOutUnchanged

RECURSIVE sorted_by_price(_)
\* sorted(flight_list, key=price): stable, ascending
sorted_by_price(rows) ==
    IF rows = <<>> THEN <<>>
    ELSE LET rest == sorted_by_price(Tail(rows))
             before == SelectSeq(rest, LAMBDA r : r.price < Head(rows).price)
             after == SelectSeq(rest, LAMBDA r : r.price >= Head(rows).price)
         IN before \o <<Head(rows)>> \o after

(* the end of forward: the "No direct flights" sentence or the sorted table *)
FlightReturn ==
    /\ t_obj.tool = "flight" /\ t_pc = "flights_return"
    /\ t_outcome' = IF Len(flight_list) = 0
                    THEN ReturnedText("No direct flights found")
                    ELSE ReturnedTable(sorted_by_price(flight_list))
    /\ t_pc' = "done"
    /\ UNCHANGED <<t_obj, t_args, t_log>>
    /\ HotelFanOutUnchanged /\ FlightFanOutUnchanged

(***************************************************************************)
(* Youtube-Master-Agent/tools/transcriber.py and youtube_fetcher.py.       *)
(*                                                                         *)
(* The agent calls the two adapters one after the other; m_done keeps how  *)
(* each finished call ended.                                               *)
(***************************************************************************)
MP3_SUFFIX == <<".","m","p","3">>

AudioPaths == { <<"a",".","m","p","3">>, <<"b",".","m","p","3">>,
                <<"a",".","w","a","v">>, <<"m","p","3">> }
VideoUrls == { "https://youtu.be/1", "https://youtu.be/2" }

NoMediaCall == [fn |-> "none", arg |-> <<>>, pc |-> "idle",
                opened |-> FALSE, posted |-> FALSE]

MediaInit ==
    /\ m_call = NoMediaCall
    /\ m_done = <<>>

\* the call ends: `how` is "returned" or "raised", `what` the string or exception
MediaEnd(how, what) ==
    /\ m_done' = Append(m_done, [fn |-> m_call.fn, arg |-> m_call.arg,
                                 how |-> how, what |-> what,
                                 opened |-> m_call.opened,
                                 posted |-> m_call.posted])
    /\ m_call' = NoMediaCall

(* transcribe_audio: the check of the extension *)
TranscribeAudio ==
    /\ m_call.pc = "idle"
    /\ Len(m_done) < MaxMediaCalls
    /\ \E audio_file \in AudioPaths :
        IF ~endswith(audio_file, MP3_SUFFIX)
        THEN /\ m_done' = Append(m_done,
                    [fn |-> "transcribe_audio", arg |-> audio_file,
                     how |-> "returned", what |-> "Audio file must be in MP3 format.",
                     opened |-> FALSE, posted |-> FALSE])
             /\ m_call' = NoMediaCall
        ELSE /\ m_call' = [fn |-> "transcribe_audio", arg |-> audio_file,
                           pc |-> "open", opened |-> FALSE, posted |-> FALSE]
             /\ UNCHANGED m_done

(* with open(audio_file, "rb") as f: audio_data = f.read() *)
TranscribeReadFile ==
    /\ m_call.fn = "transcribe_audio" /\ m_call.pc = "open"
    /\ \E readable \in BOOLEAN :
        IF readable
        THEN /\ m_call' = [m_call EXCEPT !.pc = "post", !.opened = TRUE]
             /\ UNCHANGED m_done
        ELSE MediaEnd("raised", "OSError: open")

(* session.post, response.json() and result.get("text", <failure text>) *)
TranscribePost ==
    /\ m_call.fn = "transcribe_audio" /\ m_call.pc = "post"
    /\ \E reply \in {"text", "no_text", "not_an_object", "not_json", "network_error"} :
        LET posted == [m_call EXCEPT !.posted = TRUE]
        IN /\ m_done' = Append(m_done,
                [fn |-> posted.fn, arg |-> posted.arg,
                 how |-> IF reply \in {"text", "no_text"} THEN "returned" ELSE "raised",
                 what |-> CASE reply = "text" -> "transcription"
                            [] reply = "no_text" -> "Transcription failed for {audio_file}."
                            [] reply = "not_an_object" -> "AttributeError: get"
                            [] reply = "not_json" -> "ContentTypeError: json"
                            [] reply = "network_error" -> "ClientError: post",
                 opened |-> posted.opened, posted |-> TRUE])
           /\ m_call' = NoMediaCall

(* download_youtube_audio: up to the hand-over to the executor *)
DownloadYoutubeAudio ==
    /\ m_call.pc = "idle"
    /\ Len(m_done) < MaxMediaCalls
    /\ \E url \in VideoUrls :
        m_call' = [fn |-> "download_youtube_audio", arg |-> url,
                   pc |-> "extract", opened |-> FALSE, posted |-> FALSE]
    /\ UNCHANGED m_done

(* await loop.run_in_executor(None, ydl.extract_info, url), inside the try *)
DownloadExtractInfo ==
    /\ m_call.fn = "download_youtube_audio" /\ m_call.pc = "extract"
    /\ \E result \in {"info", "info_without_title", "no_info", "download_error"} :
        CASE result = "info" -> MediaEnd("returned", "Audio file: <path>.mp3, Title: <title>")
          [] result = "info_without_title" ->
                MediaEnd("returned", "Audio file: <path>.mp3, Title: Unknown Title")
          [] result = "no_info" -> MediaEnd("returned", "str(AttributeError)")
          [] result = "download_error" -> MediaEnd("returned", "str(DownloadError)")

(***************************************************************************)
(* Youtube-Master-Agent/agents/tubemaster.py and agent_gradio.py.          *)
(*                                                                         *)
(* agent_gradio.py builds one TubeMasterAgent (global_agent) and one event *)
(* loop (global_loop) when it is imported.  Every chat session's message   *)
(* is handled by respond() on a worker thread.  The model and its tool     *)
(* calls are the environment: what the model answers is chosen freely.     *)
(***************************************************************************)
Sessions == {"A", "B"}

\* self.context = Context(self.agent): the one context of global_agent
GLOBAL_CONTEXT == "global_agent.context"

REFUSAL == "I'm sorry, but I can only assist with YouTube video-related tasks."
FALLBACK == "Seems like I failed to understand your request. Please provide more specific instructions."

UserRequests == { "Summarize https://youtu.be/1", "Book me a flight to Rome" }
ModelTexts == { "Here is the summary.", REFUSAL }
AgentTools == { "download_youtube_audio", "transcribe_audio" }

\* the blocks of a final response: one to MaxBlocks texts
ResponseBlocks == UNION { [1..n -> ModelTexts] : n \in 1..MaxBlocks }

(* format_user_prompt: the scoping instruction and the request *)
format_user_prompt(user_request) ==
    [system |-> <<"ONLY respond if the request is related to these tasks.",
                  "If the request is unrelated, simply reply: ", REFUSAL>>,
     user |-> <<"Request: ", user_request>>]

NoThread == [pc |-> "idle", task |-> 0, sent |-> 0, result |-> None]

\* no TubeMasterAgent built yet; token is whether HF_API_KEY is set
NoAgent == [state |-> "none", token |-> FALSE, llm |-> FALSE, agent |-> FALSE,
            context |-> FALSE]

AgentInit ==
    /\ a_thread = [s \in Sessions |-> NoThread]
    /\ a_tasks = <<>>
    /\ a_loop = None
    /\ a_context = <<>>
    /\ a_agent = NoAgent

(* TubeMasterAgent.__init__, run by `global_agent = TubeMasterAgent(...)`:   *)
(* the token, then self.llm, self.agent with its tools, and self.context   *)
ConstructTubeMasterAgent ==
    /\ a_agent.state = "none"
    /\ \E token \in BOOLEAN :
        a_agent' = IF ~token
                   THEN [NoAgent EXCEPT !.state = "raised"]
                   ELSE [state |-> "ready", token |-> TRUE, llm |-> TRUE,
                         agent |-> TRUE, context |-> TRUE]
    /\ UNCHANGED <<a_thread, a_tasks, a_loop, a_context>>

(* respond: task = global_loop.create_task(generate_response(...)) *)
Respond(s) ==
    /\ a_agent.state = "ready"
    /\ a_thread[s].pc \in {"idle", "returned", "raised"}
    /\ a_thread[s].sent < MaxMsgs
    /\ \E message \in UserRequests, show_reasoning \in BOOLEAN :
        a_tasks' = Append(a_tasks,
            [owner |-> s, request |-> message, show_reasoning |-> show_reasoning,
             state |-> "pending", prompt |-> None, ctx |-> None, seen |-> <<>>,
             tools |-> <<>>, trace |-> <<>>, response |-> <<>>,
             relevant |-> TRUE, answer |-> None])
    /\ a_thread' = [a_thread EXCEPT ![s] =
            [pc |-> "created", task |-> Len(a_tasks) + 1, sent |-> @.sent + 1,
             result |-> None]]
    /\ UNCHANGED <<a_loop, a_context, a_agent>>

(* respond: global_loop.run_until_complete(task); a loop that another      *)
(* thread is running refuses with RuntimeError                             *)
RunUntilComplete(s) ==
    /\ a_thread[s].pc = "created"
    /\ IF a_loop # None
       THEN /\ a_thread' = [a_thread EXCEPT ![s].pc = "raised",
                                            ![s].result = "RuntimeError: This event loop is already running"]
            /\ UNCHANGED a_loop
       ELSE /\ a_thread' = [a_thread EXCEPT ![s].pc = "running"]
            /\ a_loop' = s
    /\ UNCHANGED <<a_tasks, a_context, a_agent>>

(* call_agent: handler = self.agent.run(self.format_user_prompt(user_prompt), *)
(* ctx=self.context); the run reads what the context holds                 *)
CallAgentStart(k) ==
    /\ k \in 1..Len(a_tasks)
    /\ a_loop # None
    /\ a_tasks[k].state = "pending"
    /\ a_tasks' = [a_tasks EXCEPT ![k] =
            [@ EXCEPT !.state = "running",
                      !.prompt = format_user_prompt(a_tasks[k].request),
                      !.ctx = GLOBAL_CONTEXT,
                      !.seen = a_context,
                      !.trace = IF a_tasks[k].show_reasoning
                                THEN <<"********Agent Reasoning********">> ELSE <<>>]]
    /\ UNCHANGED <<a_thread, a_loop, a_context, a_agent>>

(* the model asks for a tool; with show_reasoning the ToolCallResult event *)
(* is printed                                                              *)
CallAgentToolCall(k) ==
    /\ k \in 1..Len(a_tasks)
    /\ a_loop # None
    /\ a_tasks[k].state = "running"
    /\ Len(a_tasks[k].tools) < MaxToolCalls
    /\ \E tool \in AgentTools :
        a_tasks' = [a_tasks EXCEPT ![k] =
            [@ EXCEPT !.tools = Append(@, tool),
                      !.trace = IF a_tasks[k].show_reasoning
                                THEN Append(@, tool) ELSE @]]
    /\ UNCHANGED <<a_thread, a_loop, a_context, a_agent>>

\* an end of call_agent that, when it streamed the events, answers with the
\* text of the first block
CallAgentFinishStreamed(k) ==
    /\ k \in 1..Len(a_tasks)
    /\ a_loop # None
    /\ a_tasks[k].state = "running"
    /\ \E blocks \in ResponseBlocks, relevant \in BOOLEAN :
        a_tasks' = [a_tasks EXCEPT ![k] =
            [@ EXCEPT !.state = "finished",
                      !.response = blocks,
                      !.relevant = relevant,
                      !.answer = IF a_tasks[k].show_reasoning
                                 THEN blocks[1] ELSE blocks[Len(blocks)],
                      !.trace = IF a_tasks[k].show_reasoning
                                THEN Append(@, "********End Agent Reasoning********")
                                ELSE @]]
    /\ a_context' = Append(a_context, [by |-> a_tasks[k].owner,
                                       request |-> a_tasks[k].request])
    /\ UNCHANGED <<a_thread, a_loop, a_agent>>

(* call_agent: response = await handler; the answer is the text of the     *)
(* last block; the run leaves the turn in its context.  `relevant` is what *)
(* a relevance check of (request, answer) would say                        *)
CallAgentFinish(k) ==
    /\ k \in 1..Len(a_tasks)
    /\ a_loop # None
    /\ a_tasks[k].state = "running"
    /\ \E blocks \in ResponseBlocks, relevant \in BOOLEAN :
        a_tasks' = [a_tasks EXCEPT ![k] =
            [@ EXCEPT !.state = "finished",
                      !.response = blocks,
                      !.relevant = relevant,
                      !.answer = blocks[Len(blocks)],
                      !.trace = IF a_tasks[k].show_reasoning
                                THEN Append(@, "********End Agent Reasoning********")
                                ELSE @]]
    /\ a_context' = Append(a_context, [by |-> a_tasks[k].owner,
                                       request |-> a_tasks[k].request])
    /\ UNCHANGED <<a_thread, a_loop, a_agent>>

(* run_until_complete returns once the thread's own task is done: the loop *)
(* stops, whatever the other tasks' state                                  *)
RespondReturn(s) ==
    /\ a_loop = s
    /\ a_thread[s].pc = "running"
    /\ a_tasks[a_thread[s].task].state = "finished"
    /\ a_thread' = [a_thread EXCEPT ![s].pc = "returned",
                                    ![s].result = a_tasks[a_thread[s].task].answer]
    /\ a_loop' = None
    /\ UNCHANGED <<a_tasks, a_context, a_agent>>

(***************************************************************************)
(* Youtube-Master-Agent/agents/tubemaster.py: TubeMasterAgent.run, the     *)
(* synchronous entry.  The caller is either plain synchronous code or code *)
(* that an event loop is running (in_loop).                                *)
(***************************************************************************)
NoRunCall == [pc |-> "idle", prompt |-> None, show_reasoning |-> FALSE,
              in_loop |-> FALSE]

RunInit ==
    /\ r_call = NoRunCall
    /\ r_coros = <<>>
    /\ r_log = <<>>

\* the number of the run() call in progress
RunNumber == Len(r_log) + 1

\* run() ends: `kind` is "returned" or "raised"
RunEnd(kind, what) ==
    /\ r_log' = Append(r_log, [prompt |-> r_call.prompt,
                               show_reasoning |-> r_call.show_reasoning,
                               in_loop |-> r_call.in_loop,
                               kind |-> kind, what |-> what])
    /\ r_call' = NoRunCall

(* run(video_prompt, show_reasoning) is called *)
Run ==
    /\ r_call.pc = "idle"
    /\ Len(r_log) < MaxRuns
    /\ \E video_prompt \in UserRequests, show_reasoning \in BOOLEAN, in_loop \in BOOLEAN :
        r_call' = [pc |-> "get_running_loop", prompt |-> video_prompt,
                   show_reasoning |-> show_reasoning, in_loop |-> in_loop]
    /\ UNCHANGED <<r_coros, r_log>>

(* loop = asyncio.get_running_loop(): RuntimeError when no loop is running, *)
(* which the except clause turns into the asyncio.run() branch             *)
RunGetRunningLoop ==
    /\ r_call.pc = "get_running_loop"
    /\ r_call' = [r_call EXCEPT !.pc = IF r_call.in_loop THEN "ensure_future"
                                       ELSE "asyncio_run"]
    /\ UNCHANGED <<r_coros, r_log>>

(* future = asyncio.ensure_future(self.call_agent(...)): a task scheduled  *)
(* on the running loop                                                     *)
RunEnsureFuture ==
    /\ r_call.pc = "ensure_future"
    /\ r_coros' = Append(r_coros, [run |-> RunNumber, via |-> "ensure_future",
                                   prompt |-> r_call.prompt,
                                   state |-> "scheduled", answer |-> None])
    /\ r_call' = [r_call EXCEPT !.pc = "run_until_complete"]
    /\ UNCHANGED r_log

(* loop.run_until_complete(future) on the loop that is running the caller: *)
(* RuntimeError('This event loop is already running'), caught by the       *)
(* except clause                                                           *)
RunLoopRunUntilComplete ==
    /\ r_call.pc = "run_until_complete"
    /\ r_call' = [r_call EXCEPT !.pc = "asyncio_run"]
    /\ UNCHANGED <<r_coros, r_log>>

(* return asyncio.run(self.call_agent(...)): the coroutine is created, and *)
(* asyncio.run either refuses it because a loop is running in this thread  *)
(* or runs it to its end on a loop of its own                              *)
RunAsyncioRun ==
    /\ r_call.pc = "asyncio_run"
    /\ IF r_call.in_loop
       THEN /\ r_coros' = Append(r_coros,
                    [run |-> RunNumber, via |-> "asyncio.run",
                     prompt |-> r_call.prompt,
                     state |-> "never_awaited", answer |-> None])
            /\ RunEnd("raised",
                      "RuntimeError: asyncio.run() cannot be called from a running event loop")
       ELSE \E blocks \in ResponseBlocks :
            /\ r_coros' = Append(r_coros,
                    [run |-> RunNumber, via |-> "asyncio.run",
                     prompt |-> r_call.prompt,
                     state |-> "finished", answer |-> blocks[Len(blocks)]])
            /\ RunEnd("returned", blocks[Len(blocks)])

(* the running loop gets control back after run() has ended and runs the   *)
(* task that ensure_future scheduled; nobody awaits its result             *)
RunLoopRunsTask ==
    /\ r_call.pc = "idle"
    /\ \E c \in 1..Len(r_coros), blocks \in ResponseBlocks :
        /\ r_coros[c].state = "scheduled"
        /\ r_coros' = [r_coros EXCEPT ![c].state = "finished",
                                      ![c].answer = blocks[Len(blocks)]]
    /\ UNCHANGED <<r_call, r_log>>

(***************************************************************************)
(* Specifications: one per part of the repository.  Every part starts from *)
(* the same initial state and leaves the other parts' variables alone.     *)
(***************************************************************************)
vars == <<fmt_call, t_obj, t_pc, t_args, t_log, t_outcome, hotel_ids, h_next,
          data, lookups, flights, f_next, flight_list, m_call, m_done,
          a_thread, a_tasks, a_loop, a_context, a_agent,
          r_call, r_coros, r_log>>

Init == FmtInit /\ TravelInit /\ MediaInit /\ AgentInit /\ RunInit

NotFormat == UNCHANGED <<travel_vars, media_vars, agent_vars, run_vars>>
NotTravel == UNCHANGED <<fmt_vars, media_vars, agent_vars, run_vars>>
NotMedia == UNCHANGED <<fmt_vars, travel_vars, agent_vars, run_vars>>
NotAgent == UNCHANGED <<fmt_vars, travel_vars, media_vars, run_vars>>
NotRun == UNCHANGED <<fmt_vars, travel_vars, media_vars, agent_vars>>

FormatNext ==
    \/ CallTextFormatter /\ NotFormat
    \/ CallJsonFormatter /\ NotFormat

TravelNext ==
    \/ ConstructHotelTool /\ NotTravel
    \/ ConstructFlightTool /\ NotTravel
    \/ HotelForward /\ NotTravel
    \/ HotelGetAccessToken /\ NotTravel
    \/ HotelConvertCountry /\ NotTravel
    \/ HotelGetCityCode /\ NotTravel
    \/ HotelFetchHotels /\ NotTravel
    \/ HotelCheckOutDate /\ NotTravel
    \/ CallFetchHotelOffers /\ NotTravel
    \/ HotelLookup /\ NotTravel
    \/ HotelOffersReturn /\ NotTravel
    \/ FlightForward /\ NotTravel
    \/ FlightConvertCountry("country_dep", "country_dest") /\ NotTravel
    \/ FlightConvertCountry("country_dest", "airport_dep") /\ NotTravel
    \/ FlightGetAirportCode("airport_dep", "airport_dest") /\ NotTravel
    \/ FlightGetAirportCode("airport_dest", "flights") /\ NotTravel
    \/ FlightFetchFlights /\ NotTravel
    \/ FlightAirlineName /\ NotTravel
    \/ FlightReturn /\ NotTravel

MediaNext ==
    \/ TranscribeAudio /\ NotMedia
    \/ TranscribeReadFile /\ NotMedia
    \/ TranscribePost /\ NotMedia
    \/ DownloadYoutubeAudio /\ NotMedia
    \/ DownloadExtractInfo /\ NotMedia

AgentNext ==
    \/ ConstructTubeMasterAgent /\ NotAgent
    \/ \E s \in Sessions : Respond(s) /\ NotAgent
    \/ \E s \in Sessions : RunUntilComplete(s) /\ NotAgent
    \/ \E k \in 1..Len(a_tasks) : CallAgentStart(k) /\ NotAgent
    \/ \E k \in 1..Len(a_tasks) : CallAgentToolCall(k) /\ NotAgent
    \/ \E k \in 1..Len(a_tasks) : CallAgentFinish(k) /\ NotAgent
    \/ \E s \in Sessions : RespondReturn(s) /\ NotAgent

\* the constructors of the three classes and the first steps that use them
CredentialsNext ==
    \/ ConstructHotelTool /\ NotTravel
    \/ ConstructFlightTool /\ NotTravel
    \/ HotelForward /\ NotTravel
    \/ HotelGetAccessToken /\ NotTravel
    \/ FlightForward /\ NotTravel
    \/ ConstructTubeMasterAgent /\ NotAgent
    \/ \E s \in Sessions : Respond(s) /\ NotAgent
    \/ \E s \in Sessions : RunUntilComplete(s) /\ NotAgent

RunNext ==
    \/ Run /\ NotRun
    \/ RunGetRunningLoop /\ NotRun
    \/ RunEnsureFuture /\ NotRun
    \/ RunLoopRunUntilComplete /\ NotRun
    \/ RunAsyncioRun /\ NotRun
    \/ RunLoopRunsTask /\ NotRun

SpecFormat == Init /\ [][FormatNext]_vars

SpecTravel == Init /\ [][TravelNext]_vars

SpecMedia == Init /\ [][MediaNext]_vars

SpecAgent == Init /\ [][AgentNext]_vars

SpecCredentials == Init /\ [][CredentialsNext]_vars

SpecRun == Init /\ [][RunNext]_vars

(***************************************************************************)
(* Claims about TubeMasterAgent.run (SpecRun).                             *)
(***************************************************************************)
\* the call_agent coroutines that the i-th run() call created
C15_CorosOf(i) == {c \in 1..Len(r_coros) : r_coros[c].run = i}

\* C15: whether or not an event loop is running in the calling thread, run
\* returns the string call_agent produced for the prompt, and call_agent
\* processes the prompt exactly once: the call created one call_agent
\* coroutine, which ran to its end and whose answer is the value returned.
C15_RunReturnsAnswerOnce ==
    \A i \in 1..Len(r_log) :
        /\ r_log[i].kind = "returned"
        /\ Cardinality(C15_CorosOf(i)) = 1
        /\ \A c \in C15_CorosOf(i) :
                /\ r_coros[c].state = "finished"
                /\ r_coros[c].prompt = r_log[i].prompt
                /\ r_coros[c].answer = r_log[i].what

(***************************************************************************)
(* Claims about construction (SpecCredentials).                            *)
(***************************************************************************)
\* C12: missing credentials fail the construction: without HF_API_KEY the
\* TubeMasterAgent's __init__ raises before the model client, the tool
\* catalog and the context are created; without AMADEUS_API_KEY or
\* AMADEUS_API_SECRET the __init__ of either travel tool raises before any
\* token exchange or other backend call; and no call is ever served by an
\* instance whose construction failed.
C12_MissingCredentialsFailConstruction ==
    /\ (a_agent.state # "none" /\ ~a_agent.token)
        => /\ a_agent.state = "raised"
           /\ ~a_agent.llm /\ ~a_agent.agent /\ ~a_agent.context
           /\ a_tasks = <<>>
           /\ \A s \in Sessions : a_thread[s] = NoThread
    /\ (t_obj.tool # "none" /\ (~t_obj.api_key \/ ~t_obj.api_secret))
        => /\ t_obj.state = "raised"
           /\ t_obj.token_calls = 0
           /\ t_log = <<>>
           /\ t_pc = "idle"
           /\ t_outcome = NoOutcome

C12_Witness ==
    /\ a_agent.state = "raised"
    /\ t_obj.tool = "flight"
    /\ t_obj.api_key /\ ~t_obj.api_secret
    /\ t_obj.state = "raised"

(***************************************************************************)
(* Claims about the gradio front end and the agent (SpecAgent).            *)
(***************************************************************************)
\* C1: conversation contexts are never shared across conversations: the
\* context passed to a run for one chat session is never the context passed
\* to a run for another session, and a run never reads turns that a run of
\* another session left in its context.
C1_ContextsNotShared ==
    /\ \A i, j \in 1..Len(a_tasks) :
            ( /\ a_tasks[i].owner # a_tasks[j].owner
              /\ a_tasks[i].state # "pending"
              /\ a_tasks[j].state # "pending" )
            => a_tasks[i].ctx # a_tasks[j].ctx
    /\ \A k \in 1..Len(a_tasks) :
            \A m \in 1..Len(a_tasks[k].seen) :
                a_tasks[k].seen[m].by = a_tasks[k].owner

\* C7: when the relevance check of (request, response) says false, the answer
\* call_agent returns is the fixed fallback sentence, never the model's text.
C7_IrrelevantGivesFallback ==
    \A k \in 1..Len(a_tasks) :
        (a_tasks[k].state = "finished" /\ ~a_tasks[k].relevant)
        => a_tasks[k].answer = FALLBACK

\* C13: show_reasoning does not alter the value call_agent returns: two runs
\* with the same request, the same starting context and the same tool calls
\* and final response of the model return the same string, whatever their
\* show_reasoning; the flag decides only the trace, which is empty without it
\* and the two banners around the tool calls with it.
C13_ShowReasoningSameAnswer ==
    /\ \A i, j \in 1..Len(a_tasks) :
            ( /\ a_tasks[i].state = "finished"
              /\ a_tasks[j].state = "finished"
              /\ a_tasks[i].request = a_tasks[j].request
              /\ a_tasks[i].seen = a_tasks[j].seen
              /\ a_tasks[i].tools = a_tasks[j].tools
              /\ a_tasks[i].response = a_tasks[j].response )
            => a_tasks[i].answer = a_tasks[j].answer
    /\ \A k \in 1..Len(a_tasks) :
            a_tasks[k].state = "finished"
            => a_tasks[k].trace =
                    IF a_tasks[k].show_reasoning
                    THEN <<"********Agent Reasoning********">> \o a_tasks[k].tools
                         \o <<"********End Agent Reasoning********">>
                    ELSE <<>>

C13_Witness ==
    /\ Len(a_tasks) = 2
    /\ a_tasks[1].state = "finished"
    /\ a_tasks[2].state = "finished"
    /\ a_tasks[1].show_reasoning /\ ~a_tasks[2].show_reasoning
    /\ a_tasks[1].request = a_tasks[2].request
    /\ a_tasks[1].seen = a_tasks[2].seen
    /\ a_tasks[1].tools = a_tasks[2].tools
    /\ Len(a_tasks[1].tools) = 1
    /\ a_tasks[1].response = a_tasks[2].response
    /\ Len(a_tasks[1].response) = 2
    /\ a_tasks[1].response[1] # a_tasks[1].response[2]
    /\ a_tasks[1].answer = a_tasks[2].answer

\* C14: for a request outside the declared domain the final answer of
\* call_agent is the refusal sentence that format_user_prompt puts into the
\* prompt.
C14_OutOfDomainRefused ==
    \A k \in 1..Len(a_tasks) :
        (a_tasks[k].state = "finished" /\ a_tasks[k].request = "Book me a flight to Rome")
        => /\ \E m \in 1..Len(a_tasks[k].prompt.system) :
                    a_tasks[k].prompt.system[m] = REFUSAL
           /\ a_tasks[k].answer = REFUSAL

\* C16: respond() calls of different sessions that overlap in time all
\* complete: none ends with the error of a loop that is already running, and
\* each returns the answer to its own message.
C16_OverlappingRespondsComplete ==
    \A s \in Sessions :
        /\ a_thread[s].pc # "raised"
        /\ a_thread[s].pc = "returned"
            => a_thread[s].result = a_tasks[a_thread[s].task].answer

(***************************************************************************)
(* Claims about the media adapters (SpecMedia).                            *)
(***************************************************************************)
\* C3: download_youtube_audio and transcribe_audio never end by raising:
\* whatever the download backend, the file system and the transcription
\* backend do, every call ends by returning a string.
C3_MediaNeverRaises ==
    \A i \in 1..Len(m_done) : m_done[i].how = "returned"

\* C11: a call of transcribe_audio with a path that does not end in ".mp3"
\* returns "Audio file must be in MP3 format.": it does not raise, the file is
\* not opened and the transcription backend is not contacted.
C11_NotMp3Rejected ==
    \A i \in 1..Len(m_done) :
        ( /\ m_done[i].fn = "transcribe_audio"
          /\ ~( /\ Len(m_done[i].arg) >= 4
                /\ SubSeq(m_done[i].arg, Len(m_done[i].arg) - 3, Len(m_done[i].arg))
                        = <<".", "m", "p", "3">> ) )
        => /\ m_done[i].how = "returned"
           /\ m_done[i].what = "Audio file must be in MP3 format."
           /\ ~m_done[i].opened
           /\ ~m_done[i].posted

C11_Witness ==
    \E i \in 1..Len(m_done) :
        /\ m_done[i].fn = "transcribe_audio"
        /\ m_done[i].arg = <<"m", "p", "3">>
        /\ m_done[i].how = "returned"
        /\ ~m_done[i].opened

(***************************************************************************)
(* Claims about the travel tools (SpecTravel).                             *)
(***************************************************************************)
\* C2: the forward method of the flight tool and of the hotel tool never ends
\* by raising: for every input and every backend reply it ends by returning
\* a string.
C2_ForwardNeverRaises ==
    (t_pc = "done" /\ t_args.entry = "forward") => t_outcome.kind = "returned"

C4_Succeeded(l) == l.reply.kind = "ok" /\ ~l.reply.malformed
C4_Empty(l) == C4_Succeeded(l) /\ l.reply.good = 0

RECURSIVE C4_RecordsOfSucceeded(_)
C4_RecordsOfSucceeded(ls) ==
    IF ls = <<>> THEN <<>>
    ELSE (IF C4_Succeeded(Head(ls))
          THEN AcceptedRecords(Head(ls).hotel, Head(ls).reply) ELSE <<>>)
         \o C4_RecordsOfSucceeded(Tail(ls))

\* C4: partial failures of the hotel fan-out are tolerated: when no hotel
\* answers with an empty offer list, fetch_hotel_offers ends by returning a
\* table that holds exactly the records of the hotels whose lookup succeeded,
\* in hotel-ID order and none of a hotel whose lookup failed, and below the
\* cap every hotel of the list has been looked up.
C4_PartialFailuresTolerated ==
    ( /\ t_pc = "done"
      /\ lookups # <<>>
      /\ \A i \in 1..Len(lookups) : ~C4_Empty(lookups[i]) )
    => /\ t_outcome.kind = "returned"
       /\ t_outcome.rows = C4_RecordsOfSucceeded(lookups)
       /\ Len(t_outcome.rows) < RESULT_CAP => Len(lookups) = Len(HotelsLookedUp)

\* C5: the hotel fan-out is bounded by the result cap: the records accepted
\* never number more than 15, and no per-hotel lookup is issued once 15
\* records have been accepted.
C5_FanOutBoundedByCap ==
    /\ Len(data) <= RESULT_CAP
    /\ \A i \in 1..Len(lookups) : lookups[i].accepted < RESULT_CAP

\* a lookup that answered 200 with an empty offer list
C17_EmptyReply(l) == l.reply.kind = "ok" /\ l.reply.good = 0 /\ ~l.reply.malformed

\* C17: a hotel whose lookup answers 200 with no offers does not discard the
\* batch: fetch_hotel_offers goes on with the remaining hotels (up to the
\* cap) and returns the table of every record accepted before and after it.
C17_EmptyOffersKeepBatch ==
    ( /\ t_pc = "done"
      /\ \E i \in 1..Len(lookups) : C17_EmptyReply(lookups[i]) )
    => /\ t_outcome.kind = "returned"
       /\ t_outcome.rows = data
       /\ Len(data) < RESULT_CAP => Len(lookups) = Len(HotelsLookedUp)

C6_HotelSteps == <<"validate", "token", "country", "city", "hotels", "check_out", "offer">>
C6_FlightSteps == <<"validate", "country_dep", "country_dest", "airport_dep",
                    "airport_dest", "flights", "airline">>
C6_Steps == IF t_obj.tool = "hotel" THEN C6_HotelSteps ELSE C6_FlightSteps
C6_FanOut == Len(C6_Steps)
C6_Rank(step) == CHOOSE r \in 1..Len(C6_Steps) : C6_Steps[r] = step

\* the exceptions a step raises
C6_ErrorsOf(step) ==
    CASE step = "validate" -> {"ValueError: Invalid price range format",
                               "ValueError: Invalid date format"}
      [] step = "token" -> {"HTTPError: token"}
      [] step \in {"country", "country_dep", "country_dest"} ->
            {"ValueError: Could not convert country name", "LookupError: country reply"}
      [] step = "city" -> {"HTTPError: city", "ValueError: Could not find city code"}
      [] step = "hotels" -> {"HTTPError: hotels", "ValueError: No hotels found for city"}
      [] step = "check_out" -> {"ValueError: to_datetime"}
      [] step \in {"airport_dep", "airport_dest"} ->
            {"HTTPError: airport", "ValueError: Could not find an airport"}
      [] step = "flights" -> {"ValueError: Error fetching flights: Bad request",
                              "HTTPError: flights"}
      [] OTHER -> {}

\* C6: forward runs its steps in the fixed order (hotel: validation, token,
\* country code, city code, hotel listing, per-hotel offers; flight: date
\* validation, the two country codes, the two airport codes, flight search,
\* airline names), and a step before the fan-out that fails is the last step
\* taken: the call is over, no later external call is issued, and the failure
\* surfaced is that step's.
C6_ShortCircuit ==
    t_args.entry = "forward" =>
        /\ \A i \in 1..Len(t_log) :
                IF i = 1 THEN C6_Rank(t_log[i].step) = 1
                ELSE \/ C6_Rank(t_log[i].step) = C6_Rank(t_log[i - 1].step) + 1
                     \/ /\ C6_Rank(t_log[i].step) = C6_FanOut
                        /\ C6_Rank(t_log[i - 1].step) = C6_FanOut
        /\ \A i \in 1..Len(t_log) :
                (~t_log[i].ok /\ C6_Rank(t_log[i].step) < C6_FanOut)
                => /\ i = Len(t_log)
                   /\ t_pc = "done"
                   /\ t_outcome.kind = "raised"
                   /\ t_outcome.what \in C6_ErrorsOf(t_log[i].step)
                   /\ lookups = <<>>
                   /\ flight_list = <<>>
        /\ t_obj.tool = "hotel" =>
                t_obj.token_calls
                    = Cardinality({i \in 1..Len(t_log) : t_log[i].step = "token"})
        /\ Len(lookups) = Cardinality({i \in 1..Len(t_log) : t_log[i].step = "offer"})

C6_Witness ==
    /\ t_args.entry = "forward"
    /\ t_obj.tool = "hotel"
    /\ t_pc = "done"
    /\ Len(t_log) = 4
    /\ t_log[3] = [step |-> "country", ok |-> TRUE]
    /\ t_log[4] = [step |-> "city", ok |-> FALSE]
    /\ t_outcome = Raised("ValueError: Could not find city code")
    /\ t_obj.token_calls = 1
    /\ hotel_ids = <<>>

(***************************************************************************)
(* Claims about the response formatters (SpecFormat).                      *)
(***************************************************************************)
FmtN == Len(fmt_call.summaries)

FmtEqualLengths ==
    /\ Len(fmt_call.summaries) = Len(fmt_call.titles)
    /\ Len(fmt_call.titles) = Len(fmt_call.topics)
    /\ Len(fmt_call.topics) = Len(fmt_call.urls)

\* the text of block k, numbered from 1: the header line, the four labeled
\* lines and the blank separator line, every line ended by a line break
C8_Block(k) ==
    <<"V","i","d","e","o"," ">> \o str_int(k) \o <<":", NL>>
    \o <<" "," ","T","i","t","l","e",":"," ">> \o fmt_call.titles[k] \o <<NL>>
    \o <<" "," ","U","R","L",":"," ">> \o fmt_call.urls[k] \o <<NL>>
    \o <<" "," ","T","o","p","i","c",":"," ">> \o fmt_call.topics[k] \o <<NL>>
    \o <<" "," ","S","u","m","m","a","r","y",":"," ">> \o fmt_call.summaries[k] \o <<NL>>
    \o <<NL>>

RECURSIVE C8_BlocksFrom(_)
C8_BlocksFrom(k) == IF k > FmtN THEN <<>> ELSE C8_Block(k) \o C8_BlocksFrom(k + 1)

\* C8: for input lists of equal length N the text formatter returns exactly
\* the N blocks 1..N in input order, block i being 'Video i:', the lines
\* Title, URL, Topic, Summary with titles[i], urls[i], topics[i], summaries[i]
\* verbatim and a blank separator line (the last line of the output is that
\* blank line, so the output ends one line break short of the blocks' text);
\* for N = 0 the result is the empty string.
C8_TextBlocks ==
    (fmt_call.fn = "text" /\ FmtEqualLengths) =>
        IF FmtN = 0 THEN fmt_call.out = <<>>
        ELSE fmt_call.out \o <<NL>> = C8_BlocksFrom(1)

C8_Witness ==
    /\ fmt_call.fn = "text"
    /\ FmtEqualLengths
    /\ FmtN = 2
    /\ fmt_call.topics[1] # fmt_call.topics[2]
    /\ \E k \in 1..Len(fmt_call.summaries[2]) : fmt_call.summaries[2][k] = NL

\* C9: when the four input lists are not all of the same length, the text
\* formatter and the JSON formatter both return exactly the string
\* "Error: Input lists must have the same length."
C9_MismatchError ==
    (fmt_call.fn \in {"text", "json"} /\ ~FmtEqualLengths) =>
        fmt_call.out = ERR_SAME_LENGTH

C9_Witness ==
    /\ fmt_call.fn = "text"
    /\ Len(fmt_call.summaries) = 0
    /\ Len(fmt_call.urls) = 2
    /\ fmt_call.out = ERR_SAME_LENGTH

\* C10: for input lists of equal length N the JSON formatter's output is
\* valid JSON, and parsing it yields one top-level key holding N objects
\* whose title, url, topic and summary members equal the inputs, in order.
C10_JsonRoundTrip ==
    (fmt_call.fn = "json" /\ FmtEqualLengths) =>
        LET doc == json_loads(fmt_call.out)
        IN /\ doc.valid
           /\ doc.key = JSON_TOP_KEY
           /\ Len(doc.items) = FmtN
           /\ \A i \in 1..FmtN :
                /\ Len(doc.items[i]) = 4
                /\ json_get(doc.items[i], JSON_TITLE) = fmt_call.titles[i]
                /\ json_get(doc.items[i], JSON_URL) = fmt_call.urls[i]
                /\ json_get(doc.items[i], JSON_TOPIC) = fmt_call.topics[i]
                /\ json_get(doc.items[i], JSON_SUMMARY) = fmt_call.summaries[i]

C10_Witness ==
    /\ fmt_call.fn = "json"
    /\ FmtEqualLengths
    /\ FmtN = 2
    /\ fmt_call.titles[1] = <<QUOTE, "q", QUOTE>>
    /\ fmt_call.urls[2] = <<"x", BSLASH>>
    /\ fmt_call.summaries[1] = <<"a", NL, "b">>
    /\ json_loads(fmt_call.out).valid

====
